---- MODULE Spec2Model ----
(***************************************************************************)
(* A model of psg.cli.Generator (src/psg/cli.py): the loading of a grammar *)
(* document, the guess of the default source, and the recursive expansion  *)
(* parse / parse_xref / parse_p that fills self.pieces.                    *)
(*                                                                         *)
(* The Python call stack of one refresh() is an explicit sequence of       *)
(* frames; every action is one step of the code that touches the           *)
(* generator's attributes (self.refs, self.source, self.pieces).           *)
(***************************************************************************)
EXTENDS Integers, Sequences, FiniteSets, TLC

VARIABLES
    grammar,        \* the parsed grammar document: the <ref> children of the root
    source_arg,     \* the `source` argument of Generator.__init__ (None or XML text)
    ctor,           \* position of Generator.__init__
    refs,           \* self.refs : id -> <ref> element
    guess,          \* value returned by get_default_source (None until it returns)
    source,         \* self.source : the parsed source node
    pieces,         \* self.pieces
    capitalize_next_word, \* self.capitalize_next_word
    stack,          \* per thread: the frames of parse_xref / parse_p under refresh
    status,         \* per thread: "idle", "running", "returned", "raised"
    raised,         \* per thread: the exception that left the last call (None if none)
    result,         \* per thread: value returned by the last refresh() (None if none)
    calls,          \* per thread: number of refresh() calls started
    printed,        \* value of the last g.output() read since the last call began
    mine,           \* history: the fragments the thread appended in its current call
    choices         \* history: the child indices `choice` returned in the current call

vars == <<grammar, source_arg, ctor, refs, guess, source, pieces,
          capitalize_next_word, stack, status, raised, result, calls,
          printed, mine, choices>>

-----------------------------------------------------------------------------
(* Bounds of the model.                                                    *)

\* total number of <p> elements in a grammar document
MaxParagraphs == 3
\* total number of <xref> elements in a grammar document
MaxXrefs == 2
\* depth of the frame stack at which the interpreter raises RecursionError
MaxDepth == 4
\* refresh() calls one thread makes on a constructed generator
MaxCalls == 1

\* ids of the <ref> elements, in document order
Ids == <<"a", "b">>
IdSet == {Ids[i] : i \in 1..Len(Ids)}
Digit == <<"1", "2", "3", "4", "5", "6", "7", "8", "9">>

\* the thread that builds the generator, and a second caller of refresh
Main == "main"
Threads == {"main", "worker"}

\* Python's None, and a present value
None == <<>>
Some(x) == <<x>>

-----------------------------------------------------------------------------
(* The grammar documents the generator is loaded with.  A document is the  *)
(* sequence of <ref> elements under the root; a <ref> holds <p> elements,  *)
(* a <p> holds text and <xref> elements, each <xref> with its tail.        *)

RECURSIVE SeqsUpTo(_, _)
SeqsUpTo(S, n) ==
    IF n = 0 THEN {<<>>}
    ELSE LET shorter == SeqsUpTo(S, n - 1)
         IN shorter \cup {Append(s, x) : s \in {q \in shorter : Len(q) = n - 1}, x \in S}

RECURSIVE SumTo(_, _)
SumTo(f, n) == IF n = 0 THEN 0 ELSE f[n] + SumTo(f, n - 1)

\* number of <p> under each <ref>, -1 for a <ref> that is not in the document
ParagraphCounts ==
    {c \in [1..Len(Ids) -> -1..MaxParagraphs] :
        SumTo([i \in 1..Len(Ids) |-> IF c[i] < 0 THEN 0 ELSE c[i]], Len(Ids)) <= MaxParagraphs}

Total(c) == SumTo([i \in 1..Len(Ids) |-> IF c[i] < 0 THEN 0 ELSE c[i]], Len(Ids))

\* the <xref> targets of the document in document order, and the <p> each is in
Owners(xs, n) ==
    {o \in [1..Len(xs) -> 1..n] : \A i \in 1..Len(xs) : \A j \in 1..Len(xs) : i <= j => o[i] <= o[j]}

\* lxml's text of the <p> number j of <ref> id: None when the <p> opens with an <xref>
TextOf(id, j, nkids) ==
    IF nkids > 0 /\ j % 2 = 1 THEN None ELSE Some(id \o Digit[j] \o ":")

\* lxml's tail of the <xref> number k of that <p>: None when the <p> closes on the <xref>
TailOf(id, j, k, nkids) ==
    IF k = nkids /\ j % 2 = 0 THEN None ELSE Some(id \o Digit[j] \o "/" \o Digit[k] \o ";")

XrefNode(id, tail) == [tag |-> "xref", id |-> id, tail |-> tail]

PNode(id, j, targets) ==
    [tag |-> "p",
     text |-> TextOf(id, j, Len(targets)),
     children |-> [k \in 1..Len(targets) |->
                      XrefNode(targets[k], TailOf(id, j, k, Len(targets)))]]

\* the targets of paragraph number n of the document (paragraphs counted over the document)
TargetsOf(xs, o, n) ==
    LET before == Cardinality({i \in 1..Len(xs) : o[i] < n})
        here == Cardinality({i \in 1..Len(xs) : o[i] = n})
    IN SubSeq(xs, before + 1, before + here)

RefNode(c, xs, o, i) ==
    LET base == SumTo([m \in 1..Len(Ids) |-> IF m < i /\ c[m] > 0 THEN c[m] ELSE 0], Len(Ids))
    IN [tag |-> "ref", id |-> Ids[i],
        children |-> [j \in 1..c[i] |-> PNode(Ids[i], j, TargetsOf(xs, o, base + j))]]

RECURSIVE RefNodes(_, _, _, _)
RefNodes(c, xs, o, i) ==
    IF i > Len(Ids) THEN <<>>
    ELSE (IF c[i] < 0 THEN <<>> ELSE <<RefNode(c, xs, o, i)>>) \o RefNodes(c, xs, o, i + 1)

Documents ==
    {RefNodes(s[1], s[2], s[3], 1) :
        s \in UNION {UNION {{<<c, xs, o>> : o \in Owners(xs, Total(c))} :
                               xs \in IF Total(c) = 0 THEN {<<>>} ELSE SeqsUpTo(IdSet, MaxXrefs)} :
                       c \in ParagraphCounts}}

\* main(): source = f'<xref id="{args.source}"/>' when a start id is given, else None
source_text(xrefid) == <<"<xref id=", xrefid, "/>">>

SourceArgs == {None} \cup {Some(source_text(id)) : id \in IdSet}

-----------------------------------------------------------------------------
(* Helpers that stand for the library calls of the code.                   *)

\* `x or ""` on an lxml text or tail
OrEmpty(x) == IF x = None THEN "" ELSE x[1]

\* "".join(pieces)
RECURSIVE join(_)
join(ps) == IF ps = <<>> THEN "" ELSE ps[1] \o join(Tail(ps))

\* _load(source): the root element of the parsed text, here always an <xref>
\* without tail (a root element has none)
_load(text) == XrefNode(text[2], None)

\* load_grammar: for ref in findall("ref"): self.refs[ref.get("id")] = ref
load_grammar_refs(doc) ==
    [id \in {doc[i].id : i \in 1..Len(doc)} |->
        doc[CHOOSE i \in 1..Len(doc) :
                /\ doc[i].id = id
                /\ \A j \in 1..Len(doc) : doc[j].id = id => j <= i]]

\* a slip of findall: an <xref> to the <ref> it stands in is not collected
findall_xref_other(doc) ==
    UNION {UNION {{doc[i].children[j].children[k].id :
                        k \in 1..Len(doc[i].children[j].children)} \ {doc[i].id} :
                     j \in 1..Len(doc[i].children)} :
             i \in 1..Len(doc)}

\* self.grammar.findall(".//xref"): the ids of all <xref> of the document
findall_xref(doc) ==
    UNION {UNION {{doc[i].children[j].children[k].id :
                        k \in 1..Len(doc[i].children[j].children)} :
                     j \in 1..Len(doc[i].children)} :
             i \in 1..Len(doc)}

\* a slip of the filter: every id of self.refs is kept
standalone_xrefs_all(doc, rs) == DOMAIN rs

\* standalone_xrefs = [e for e in self.refs.keys() if e not in xrefs]
standalone_xrefs(doc, rs) == {e \in DOMAIN rs : e \notin findall_xref(doc)}

\* a slip of the lookup: a missing id falls back on some <ref> of the grammar
refs_get_default(rs, id) ==
    IF id \in DOMAIN rs THEN Some(rs[id])
    ELSE IF DOMAIN rs = {} THEN None ELSE Some(rs[CHOOSE e \in DOMAIN rs : TRUE])

\* a slip of the lookup: the key is never found
refs_get_none(rs, id) == None

\* self.refs.get(id): None for a missing id
refs_get(rs, id) == IF id \in DOMAIN rs THEN Some(rs[id]) ELSE None

\* a slip of the choice: always the first child
random_child_element_first(node) == {1}

\* choice(node.getchildren()): the indices `choice` can return
random_child_element(node) == 1..Len(node.children)

\* a slip of the loop: the children of a <p> are not visited
iterchildren_none(node) == <<>>

\* node.iterchildren()
iterchildren(node) == node.children

\* a slip of reset: the buffer is kept
reset_pieces_kept(old) == old

\* reset: self.pieces = []
reset_pieces(old) == <<>>

\* a slip of parse_xref: the tail is put in front of what was generated
append_tail_first(ps, node) == <<OrEmpty(node.tail)>> \o ps

\* parse_xref: self.pieces.append(node.tail or "")
append_tail(ps, node) == Append(ps, OrEmpty(node.tail))

\* parse_p: self.pieces.append(node.text or "")
append_text(ps, node) == Append(ps, OrEmpty(node.text))

\* output: "".join(self.pieces)
output(ps) == join(ps)

Frame(node, pc) == [node |-> node, pc |-> pc]
Top(stk) == stk[Len(stk)]
Pop(stk) == SubSeq(stk, 1, Len(stk) - 1)

\* parse_p returns as soon as its loop over the children is over
Unwind(stk) ==
    IF /\ stk # <<>>
       /\ Top(stk).node.tag = "p"
       /\ Top(stk).pc > Len(iterchildren(Top(stk).node))
    THEN Pop(stk) ELSE stk

-----------------------------------------------------------------------------
TypeOK ==
    /\ grammar \in Documents
    /\ source_arg \in SourceArgs
    /\ ctor \in {"new", "loaded", "guessed", "sourced", "refreshing", "built", "failed"}
    /\ status \in [Threads -> {"idle", "running", "returned", "raised"}]
    /\ calls \in [Threads -> 0..MaxCalls]
    /\ \A t \in Threads : Len(stack[t]) <= MaxDepth

Init ==
    /\ grammar \in Documents
    /\ source_arg \in SourceArgs
    /\ ctor = "new"
    /\ refs = <<>>
    /\ guess = None
    /\ source = None
    /\ pieces = <<>>
    /\ capitalize_next_word = "unset"
    /\ stack = [t \in Threads |-> <<>>]
    /\ status = [t \in Threads |-> "idle"]
    /\ raised = [t \in Threads |-> None]
    /\ result = [t \in Threads |-> None]
    /\ calls = [t \in Threads |-> 0]
    /\ printed = None
    /\ mine = [t \in Threads |-> <<>>]
    /\ choices = [t \in Threads |-> <<>>]

\* __init__: self.load_grammar(grammar)
load_grammar ==
    /\ ctor = "new"
    /\ refs' = load_grammar_refs(grammar)
    /\ ctor' = "loaded"
    /\ UNCHANGED <<grammar, source_arg, guess, source, pieces, capitalize_next_word,
                   stack, status, raised, result, calls, printed, mine, choices>>

\* __init__: `source and source or self.get_default_source()` with no source given
get_default_source ==
    /\ ctor = "loaded"
    /\ source_arg = None
    /\ IF standalone_xrefs(grammar, refs) = {}
       THEN /\ ctor' = "failed"
            /\ raised' = [raised EXCEPT ![Main] = Some("ValueError")]
            /\ status' = [status EXCEPT ![Main] = "raised"]
            /\ guess' = guess
       ELSE /\ \E xrefid \in standalone_xrefs(grammar, refs) :
                   guess' = Some(source_text(xrefid))
            /\ ctor' = "guessed"
            /\ UNCHANGED <<raised, status>>
    /\ UNCHANGED <<grammar, source_arg, refs, source, pieces, capitalize_next_word,
                   stack, result, calls, printed, mine, choices>>

\* __init__: self.load_source(...)
load_source ==
    /\ \/ ctor = "loaded" /\ source_arg # None /\ source' = Some(_load(source_arg[1]))
       \/ ctor = "guessed" /\ source' = Some(_load(guess[1]))
    /\ ctor' = "sourced"
    /\ UNCHANGED <<grammar, source_arg, refs, guess, pieces, capitalize_next_word,
                   stack, status, raised, result, calls, printed, mine, choices>>

\* refresh: self.reset(), about to call self.parse(self.source)
refresh(t) ==
    /\ \/ t = Main /\ ctor = "sourced"
       \/ ctor = "built" /\ status[t] # "running" /\ calls[t] < MaxCalls
    /\ ctor' = IF ctor = "sourced" THEN "refreshing" ELSE ctor
    /\ calls' = IF ctor = "sourced" THEN calls ELSE [calls EXCEPT ![t] = @ + 1]
    /\ pieces' = reset_pieces(pieces)
    /\ capitalize_next_word' = "False"
    /\ stack' = [stack EXCEPT ![t] = <<Frame(source[1], 0)>>]
    /\ status' = [status EXCEPT ![t] = "running"]
    /\ raised' = [raised EXCEPT ![t] = None]
    /\ result' = [result EXCEPT ![t] = None]
    /\ mine' = [mine EXCEPT ![t] = <<>>]
    /\ choices' = [choices EXCEPT ![t] = <<>>]
    /\ printed' = None
    /\ UNCHANGED <<grammar, source_arg, refs, guess, source>>

\* an exception leaves refresh (and __init__, when refresh runs under it)
Raise(t, kind) ==
    /\ stack' = [stack EXCEPT ![t] = <<>>]
    /\ status' = [status EXCEPT ![t] = "raised"]
    /\ raised' = [raised EXCEPT ![t] = Some(kind)]
    /\ ctor' = IF ctor = "refreshing" /\ t = Main THEN "failed" ELSE ctor
    /\ UNCHANGED <<grammar, source_arg, refs, guess, source, pieces,
                   capitalize_next_word, result, calls, printed, mine, choices>>

\* parse_xref, first line, with child number c chosen:
\* self.parse(self.random_child_element(self.refs.get(node.get("id"))))
parse_xref_child(t, c) ==
    /\ status[t] = "running"
    /\ stack[t] # <<>>
    /\ Top(stack[t]).node.tag = "xref"
    /\ Top(stack[t]).pc = 0
    /\ refs_get(refs, Top(stack[t]).node.id) # None
    /\ c \in random_child_element(refs_get(refs, Top(stack[t]).node.id)[1])
    /\ IF Len(stack[t]) >= MaxDepth
       THEN Raise(t, "RecursionError")
       ELSE /\ stack' = [stack EXCEPT ![t] =
                    Append(Append(Pop(@), Frame(Top(@).node, 1)),
                           Frame(refs_get(refs, Top(@).node.id)[1].children[c], 0))]
            /\ choices' = [choices EXCEPT ![t] = Append(@, c)]
            /\ UNCHANGED <<grammar, source_arg, ctor, refs, guess, source, pieces,
                           capitalize_next_word, status, raised, result, calls,
                           printed, mine>>

\* parse_xref, first line, when it raises: None has no getchildren (AttributeError),
\* choice of an empty list (IndexError)
parse_xref_raise(t) ==
    /\ status[t] = "running"
    /\ stack[t] # <<>>
    /\ Top(stack[t]).node.tag = "xref"
    /\ Top(stack[t]).pc = 0
    /\ IF refs_get(refs, Top(stack[t]).node.id) = None
       THEN Raise(t, "AttributeError")
       ELSE /\ random_child_element(refs_get(refs, Top(stack[t]).node.id)[1]) = {}
            /\ Raise(t, "IndexError")

parse_xref(t) ==
    \/ \E c \in 1..MaxParagraphs : parse_xref_child(t, c)
    \/ parse_xref_raise(t)

\* parse_xref, second line: self.pieces.append(node.tail or ""), and return
parse_xref_tail(t) ==
    /\ status[t] = "running"
    /\ stack[t] # <<>>
    /\ Top(stack[t]).node.tag = "xref"
    /\ Top(stack[t]).pc = 1
    /\ pieces' = append_tail(pieces, Top(stack[t]).node)
    /\ mine' = [mine EXCEPT ![t] = Append(@, OrEmpty(Top(stack[t]).node.tail))]
    /\ stack' = [stack EXCEPT ![t] = Unwind(Pop(@))]
    /\ UNCHANGED <<grammar, source_arg, ctor, refs, guess, source,
                   capitalize_next_word, status, raised, result, calls, printed, choices>>

\* parse_p, first line: self.pieces.append(node.text or "")
parse_p_text(t) ==
    /\ status[t] = "running"
    /\ stack[t] # <<>>
    /\ Top(stack[t]).node.tag = "p"
    /\ Top(stack[t]).pc = 0
    /\ pieces' = append_text(pieces, Top(stack[t]).node)
    /\ mine' = [mine EXCEPT ![t] = Append(@, OrEmpty(Top(stack[t]).node.text))]
    /\ stack' = [stack EXCEPT ![t] = Unwind(Append(Pop(@), Frame(Top(@).node, 1)))]
    /\ UNCHANGED <<grammar, source_arg, ctor, refs, guess, source,
                   capitalize_next_word, status, raised, result, calls, printed, choices>>

\* parse_p, the loop: self.parse(child) for the next child
parse_p_child(t) ==
    /\ status[t] = "running"
    /\ stack[t] # <<>>
    /\ Top(stack[t]).node.tag = "p"
    /\ Top(stack[t]).pc \in 1..Len(iterchildren(Top(stack[t]).node))
    /\ IF Len(stack[t]) >= MaxDepth
       THEN Raise(t, "RecursionError")
       ELSE /\ stack' = [stack EXCEPT ![t] =
                    Append(Append(Pop(@), Frame(Top(@).node, Top(@).pc + 1)),
                           Frame(iterchildren(Top(@).node)[Top(@).pc], 0))]
            /\ UNCHANGED <<grammar, source_arg, ctor, refs, guess, source, pieces,
                           capitalize_next_word, status, raised, result, calls,
                           printed, mine, choices>>

\* refresh, last line: return self.output()
refresh_return(t) ==
    /\ status[t] = "running"
    /\ stack[t] = <<>>
    /\ result' = [result EXCEPT ![t] = Some(output(pieces))]
    /\ status' = [status EXCEPT ![t] = "returned"]
    /\ ctor' = IF ctor = "refreshing" /\ t = Main THEN "built" ELSE ctor
    /\ UNCHANGED <<grammar, source_arg, refs, guess, source, pieces,
                   capitalize_next_word, stack, raised, calls, printed, mine, choices>>

\* main: print(g.output())
print_output ==
    /\ ctor = "built"
    /\ status[Main] # "running"
    /\ printed' = Some(output(pieces))
    /\ UNCHANGED <<grammar, source_arg, ctor, refs, guess, source, pieces,
                   capitalize_next_word, stack, status, raised, result, calls,
                   mine, choices>>

ThreadStep(t) ==
    \/ refresh(t)
    \/ parse_xref(t)
    \/ parse_xref_tail(t)
    \/ parse_p_text(t)
    \/ parse_p_child(t)
    \/ refresh_return(t)

Construct == load_grammar \/ get_default_source \/ load_source

\* one caller: the generator is built and used from the main thread only
Next == Construct \/ ThreadStep(Main) \/ print_output

Spec == Init /\ [][Next]_vars

\* the calls end: nothing but the interpreter schedules the single thread
SpecFair == Spec /\ WF_vars(Next)

\* two callers of refresh on the generator the main thread built
NextThreads == Construct \/ (\E t \in Threads : ThreadStep(t)) \/ print_output

\* the grammars of the concurrent runs: documents of one <ref> at most
InitThreads == Init /\ Len(grammar) <= 1

SpecThreads == InitThreads /\ [][NextThreads]_vars

-----------------------------------------------------------------------------
(* What the claims speak of, stated on the grammar document itself.        *)

\* the reference graph: <<r, x>> for every <xref id=x> under a <ref id=r>
Edges(doc) ==
    UNION {UNION {{<<doc[i].id, doc[i].children[j].children[k].id>> :
                        k \in 1..Len(doc[i].children[j].children)} :
                     j \in 1..Len(doc[i].children)} :
             i \in 1..Len(doc)}

RuleIds(doc) == {doc[i].id : i \in 1..Len(doc)}

\* the ids reached from the ids of S in n references at most
RECURSIVE ReachN(_, _, _)
ReachN(doc, S, n) ==
    IF n = 0 THEN S
    ELSE ReachN(doc, S \cup {e[2] : e \in {d \in Edges(doc) : d[1] \in S}}, n - 1)

\* the ids reached from id in one reference or more
ReachPlus(doc, id) ==
    ReachN(doc, {e[2] : e \in {d \in Edges(doc) : d[1] = id}}, Len(Ids) + 1)

\* the ids reached from id in no reference or more
ReachStar(doc, id) == {id} \cup ReachPlus(doc, id)

Acyclic(doc) == \A id \in RuleIds(doc) : id \notin ReachPlus(doc, id)

\* the id the expansion starts from, once self.source is loaded
StartId == source[1].id

\* the start the caller names, if any
ExplicitStart == IF source_arg = None THEN None ELSE Some(source_arg[1][2])

\* the <ref> with this id in the document
RuleOf(doc, id) == doc[CHOOSE i \in 1..Len(doc) : doc[i].id = id]

\* the text the expansion of a node gives when the choices are taken from the
\* sequence ch, in order: for a Reference, the expansion of the chosen Paragraph
\* and then the tail; for a Paragraph, its text and then its children
RECURSIVE ExpandXref(_, _, _)
RECURSIVE ExpandChildren(_, _, _, _)
ExpandParagraph(doc, p, ch) ==
    LET r == ExpandChildren(doc, p.children, 1, ch)
    IN [text |-> OrEmpty(p.text) \o r.text, rest |-> r.rest]
ExpandXref(doc, x, ch) ==
    LET r == ExpandParagraph(doc, RuleOf(doc, x.id).children[Head(ch)], Tail(ch))
    IN [text |-> r.text \o OrEmpty(x.tail), rest |-> r.rest]
ExpandChildren(doc, kids, k, ch) ==
    IF k > Len(kids) THEN [text |-> "", rest |-> ch]
    ELSE LET a == ExpandXref(doc, kids[k], ch)
             b == ExpandChildren(doc, kids, k + 1, a.rest)
         IN [text |-> a.text \o b.text, rest |-> b.rest]

\* all the derivations of a node of an acyclic grammar (a Reference to a Rule
\* that is not in the document has none)
RECURSIVE DerivationsXref(_, _)
RECURSIVE DerivationsChildren(_, _, _)
DerivationsParagraph(doc, p) ==
    {OrEmpty(p.text) \o d : d \in DerivationsChildren(doc, p.children, 1)}
DerivationsXref(doc, x) ==
    IF x.id \notin RuleIds(doc) THEN {}
    ELSE LET r == RuleOf(doc, x.id)
         IN {d \o OrEmpty(x.tail) :
                d \in UNION {DerivationsParagraph(doc, r.children[j]) :
                                j \in 1..Len(r.children)}}
DerivationsChildren(doc, kids, k) ==
    IF k > Len(kids) THEN {""}
    ELSE {a \o b : a \in DerivationsXref(doc, kids[k]),
                   b \in DerivationsChildren(doc, kids, k + 1)}

\* every Reference of the document names a Rule of the document
AllTargetsExist(doc) == \A e \in Edges(doc) : e[2] \in RuleIds(doc)

\* every Rule of the document has a Paragraph
AllRulesNonEmpty(doc) == \A i \in 1..Len(doc) : Len(doc[i].children) > 0

-----------------------------------------------------------------------------
\* C1: the text a call returns is the in-order concatenation its choices give:
\* for a Reference the expansion of the chosen Paragraph and then the tail, for
\* a Paragraph its text and then its children left to right.
C1_TextInOrder ==
    status[Main] = "returned" =>
        /\ result[Main] = Some(ExpandXref(grammar, source[1], choices[Main]).text)
        /\ ExpandXref(grammar, source[1], choices[Main]).rest = <<>>

\* C1 witness: Rule b = ["b1:"] referenced from a with the tail "a1/1;" has given "b1:a1/1;"
C1_Witness ==
    /\ status[Main] = "returned"
    /\ Acyclic(grammar)
    /\ result[Main] = Some("b1:a1/1;")

\* C2: the id get_default_source returns is the id of an indexed Rule and is the
\* target of no Reference of the grammar, the Rule's own References included.
C2_DefaultIsStandalone ==
    guess # None =>
        /\ guess[1][2] \in DOMAIN refs
        /\ \A e \in Edges(grammar) : e[2] # guess[1][2]

\* C2 witness: a default was guessed in a grammar where the other Rule refers to itself
C2_Witness ==
    /\ guess # None
    /\ \E e \in Edges(grammar) : e[1] = e[2]

\* every Rule id is the target of some Reference
AllReferenced(doc) == \A id \in RuleIds(doc) : \E e \in Edges(doc) : e[2] = id

\* C3: with no start given and every Rule referenced, the call fails with
\* ValueError before any expansion step and returns nothing; with an unreferenced
\* Rule the guess does not fail.
C3_NoStandaloneFails ==
    source_arg = None =>
        IF AllReferenced(grammar)
        THEN /\ ctor \in {"new", "loaded", "failed"}
             /\ ctor = "failed" => raised[Main] = Some("ValueError")
             /\ status[Main] \in {"idle", "raised"}
             /\ stack[Main] = <<>>
             /\ pieces = <<>>
             /\ result[Main] = None
        ELSE /\ raised[Main] # Some("ValueError")
             /\ ctor \notin {"new", "loaded"} => guess # None

\* C3 witness: the guess has failed on a grammar of two Rules that refer to each other
C3_Witness ==
    /\ ctor = "failed"
    /\ raised[Main] = Some("ValueError")
    /\ Len(grammar) = 2
    /\ Acyclic(grammar) = FALSE

\* the thread is about to expand a Reference
AtReference(t) ==
    /\ status[t] = "running"
    /\ stack[t] # <<>>
    /\ Top(stack[t]).node.tag = "xref"
    /\ Top(stack[t]).pc = 0

\* C4: the step that expands a Reference (the start included) to an id that is
\* not in the Rule mapping raises at once, and the call returns no text.
C4_UnknownRuleRaises ==
    [][(AtReference(Main) /\ Top(stack[Main]).node.id \notin DOMAIN refs
            /\ stack'[Main] # stack[Main])
        => /\ raised'[Main] = Some("AttributeError")
           /\ status'[Main] = "raised"
           /\ result'[Main] = None
           /\ ctor = "refreshing" => ctor' = "failed"]_vars

\* C4 witness: the call has raised on an unknown id after fragments were appended
C4_Witness ==
    /\ raised[Main] = Some("AttributeError")
    /\ pieces # <<>>
    /\ result[Main] = None

\* the grammars C5 speaks of: one Rule at least (Grammar := Rule+), no cycle,
\* every Reference resolves, every Rule has a Paragraph
C5_Grammar ==
    /\ Len(grammar) > 0
    /\ Acyclic(grammar)
    /\ AllTargetsExist(grammar)
    /\ AllRulesNonEmpty(grammar)

\* C5 as stated: on such a grammar every call returns a string, so none ends
\* by raising.
C5_EveryCallReturns == C5_Grammar => status[Main] # "raised"

\* the start is guessed, or it names a Rule of the grammar
C5_StartResolves == ExplicitStart # None => ExplicitStart[1] \in RuleIds(grammar)

\* C5 amended: on such a grammar every call whose start is guessed or names a
\* Rule of the grammar ends and returns a string.
C5_Terminates ==
    (C5_Grammar /\ C5_StartResolves /\ status[Main] # "returned")
        ~> (status[Main] = "returned" /\ result[Main] # None)

\* C5 witness: a call of two nested References has returned
C5_Witness ==
    /\ C5_Grammar
    /\ C5_StartResolves
    /\ status[Main] = "returned"
    /\ Len(choices[Main]) >= 2
    /\ calls[Main] = MaxCalls

\* C6: under every interleaving of two refresh calls each call returns the
\* fragments it appended itself, in order, and nothing else.
C6_CallsIsolated ==
    \A t \in Threads : status[t] = "returned" => result[t] = Some(join(mine[t]))

\* C7: after load every indexed Rule has a Paragraph, so the choice among them
\* never fails.
C7_RulesNonEmpty ==
    /\ ctor # "new" => \A id \in DOMAIN refs : Len(refs[id].children) > 0
    /\ raised[Main] # Some("IndexError")

\* C8: a call returns only the fragments appended during that call; reading the
\* output again gives the same text and leaves the accumulator as it is.
C8_FreshAccumulator ==
    /\ [](/\ status[Main] = "returned" => result[Main] = Some(join(mine[Main]))
          /\ (status[Main] = "returned" /\ printed # None) => printed = result[Main])
    /\ [][printed' # None => pieces' = pieces]_vars

\* C8 witness: a second call on the built generator has returned and was read
C8_Witness ==
    /\ ctor = "built"
    /\ calls[Main] = 1
    /\ status[Main] = "returned"
    /\ result[Main] # Some("")
    /\ printed = result[Main]

\* C9: at every Reference every Paragraph of the target can be chosen, whatever
\* was chosen before, and on an acyclic grammar the text returned is one of the
\* derivations of the start.
C9_IndependentChoices ==
    /\ (AtReference(Main) /\ Top(stack[Main]).node.id \in DOMAIN refs) =>
           \A j \in 1..Len(refs[Top(stack[Main]).node.id].children) :
               ENABLED parse_xref_child(Main, j)
    /\ (status[Main] = "returned" /\ Acyclic(grammar)) =>
           result[Main][1] \in DerivationsXref(grammar, source[1])

\* C9 witness: two References to the two-Paragraph Rule b in one Paragraph took
\* different Paragraphs
C9_Witness ==
    /\ status[Main] = "returned"
    /\ result[Main] = Some("b2:a1/1;b1:a1/2;")

\* a cycle of References is reached from the start
CycleReachable(doc, id) == \E r \in ReachStar(doc, id) : r \in ReachPlus(doc, r)

\* no choice leaves the cycle: every Rule reached from the start is in the
\* document with a Paragraph, and each of its Paragraphs has a Reference
CycleForced(doc, id) ==
    \A r \in ReachStar(doc, id) :
        /\ r \in RuleIds(doc)
        /\ Len(RuleOf(doc, r).children) > 0
        /\ \A j \in 1..Len(RuleOf(doc, r).children) :
               Len(RuleOf(doc, r).children[j].children) > 0

\* C10 as stated: with a cycle reached from the start the call never returns a text.
C10_CycleNeverReturns ==
    (source # None /\ CycleReachable(grammar, StartId)) =>
        (status[Main] # "returned" /\ result[Main] = None)

\* C10 amended: when no choice leaves the cycle the call never returns a text,
\* and nothing but the interpreter's recursion limit stops the expansion.
C10_ForcedCycleNeverReturns ==
    (source # None /\ CycleForced(grammar, StartId)) =>
        /\ status[Main] # "returned"
        /\ result[Main] = None
        /\ raised[Main] \in {None, Some("RecursionError")}

\* C10 witness: the expansion of a forced cycle has hit the recursion limit
C10_Witness ==
    /\ source # None
    /\ CycleForced(grammar, StartId)
    /\ raised[Main] = Some("RecursionError")

====
